---- MODULE Spec2Model ----
(***************************************************************************)
(* Verification model of two operators of opentelemetry-log-collection:    *)
(*   - the recombine transformer (operator/builtin/transformer/recombine)  *)
(*   - the journald input        (operator/builtin/input/journald)         *)
(*                                                                         *)
(* Time is counted in units of force_flush_period: one Elapse step is one  *)
(* period of wall time.  An Entry's Timestamp is kept relative to the      *)
(* clock, as age = time.Now() - Timestamp in periods (negative: stamped in *)
(* the future), saturating at ForceFlushTimeout, which is all flushLoop    *)
(* ever compares.                                                          *)
(***************************************************************************)
EXTENDS Integers, Sequences, FiniteSets, TLC

\* ------------------------------------------------------------- bounds
\* Number of Process calls in one run of the recombiner.
MaxEntries == 3

\* Number of lines the reader of the journald input reads in one run.
MaxLines == 3
\* Number of times the journald input is started in one run.
MaxStarts == 2
\* Width in bits of the integers parseJournalEntry computes with.  The code
\* computes in int64; the model keeps two's complement arithmetic at a width
\* the model checker can enumerate.
IntBits == 16
\* Goroutines calling Process concurrently.
MaxCallers == 2

\* ---------------------------------------------------------- constants
\* force_flush_period, in time units (the unit is the period itself).
ForceFlushTimeout == 1
\* The sentinel source key (recombine.go:192).
DefaultSourceIdentifier == "DefaultSourceIdentifier"
\* The combine_with separator, as one token of a combined string.
CombineWith == 0

\* Values of the source_identifier attribute of an incoming Entry: a named
\* source, or "" (empty or absent, both pooled under the sentinel key).
SrcVals == {"a", ""}
\* Outcome of running the compiled predicate on the Entry.
PredResults == {"match", "nomatch", "error"}
\* What the combine_field of an Entry holds:
\*   "str"   a string (Read succeeds, Set succeeds)
\*   "nostr" nothing or a non-string (Read fails, Set succeeds)
\*   "noset" the path crosses a non-mapping (Read fails, Set fails)
Kinds == {"str", "nostr", "noset"}
\* Age of the Timestamp of an arriving Entry: stamped now, or one period ahead.
Ages == {0, -1}

\* The configurations Build is run with.
Configs ==
  { [matchFirstLine |-> TRUE,  overwriteWithOldest |-> TRUE,
     maxBatchSize |-> 3, maxSources |-> 3, onError |-> "send"],
    [matchFirstLine |-> FALSE, overwriteWithOldest |-> FALSE,
     maxBatchSize |-> 3, maxSources |-> 3, onError |-> "drop"],
    [matchFirstLine |-> TRUE,  overwriteWithOldest |-> TRUE,
     maxBatchSize |-> 2, maxSources |-> 2, onError |-> "drop"],
    [matchFirstLine |-> FALSE, overwriteWithOldest |-> TRUE,
     maxBatchSize |-> 1, maxSources |-> 2, onError |-> "send"],
    [matchFirstLine |-> TRUE,  overwriteWithOldest |-> FALSE,
     maxBatchSize |-> 2, maxSources |-> 1, onError |-> "drop"] }

\* What the upstream operator feeds in one run: entries of several sources,
\* entries whose combine_field varies, or entries whose Timestamp varies.
Feeds ==
  { [srcs |-> SrcVals, kinds |-> {"str"}, ages |-> Ages],
    [srcs |-> {"a"},   kinds |-> Kinds,   ages |-> {0}] }

Callers == 1..MaxCallers

VARIABLES
  feed,       \* the kind of stream the upstream feeds (fixed for a run)
  cfg,        \* the RecombineOperator's immutable fields set by Build
  batchMap,   \* r.batchMap: source key -> sequence of buffered Entries
  tickC,      \* r.ticker.C holds a tick (channel of capacity 1)
  tickerOn,   \* the ticker is running (not stopped)
  chClose,    \* r.chClose has been closed
  loopPc,     \* flushLoop: "none" (not started), "select", "lock", "done";
              \* where the handler is followed statement by statement also
              \* "range", "reset", "unlock"
  panicked,   \* the process panicked (close of a closed channel)
  nextId,     \* identity given to the next Entry passed to Process
  written,    \* Entries the last operation Wrote downstream, in order
  last,       \* the last operation: its name, its Entry, what it returned
  run         \* per source key, the maximal run being assembled (history)

\* ---- the mutex of the recombiner and the goroutines that take it
VARIABLES
  locked,     \* the sync.Mutex embedded in RecombineOperator is locked
  procPc,     \* per caller of Process: "idle", "lock", "admit", "flush"
  stopPc,     \* the caller of Stop: "idle", "lock", "flush", "close",
              \* "unlock", "done"
  elapsed     \* a force_flush_period has passed since the tick handler last
              \* reset the ticker (history; TRUE before its first run)

mvars == <<locked, procPc, stopPc, elapsed>>

rvars == <<feed, cfg, batchMap, tickC, tickerOn, chClose, loopPc, panicked,
           nextId, written, last, run, mvars>>

\* ---- journald input
VARIABLES
  persisted,  \* the persister's value under lastReadCursor (NoCursor: none)
  args,       \* the args slice captured by the newCmd closure
  cmdArgs,    \* the argument list of the child launched by the last Start
  jpc,        \* Start and the reader goroutine: "built", "read", "parsed",
              \* "set", "wrote", "done", "failed", "panic"
  cancelled,  \* operator.cancel() was called (the child is killed)
  stopped,    \* Stop returned
  jpos,       \* position in the journal of the last line the child printed
  nread,      \* lines read by the reader so far, over all Starts
  nstarts,    \* calls of Start so far
  line,       \* the line being processed
  setOk,      \* whether the last persister.Set succeeded
  jwritten,   \* cursors of the lines whose Entry was Written downstream
  crashes,    \* the run is one in which the agent may crash (fixed for a run)
  jparsed,    \* cursors of the lines parseJournalEntry returned an Entry for
  startRet,   \* what the last Start returned: "none", "nil" or "err"
  raw,        \* parseJournalEntry alone: the decoded JSON object of a line
  decoded     \* parseJournalEntry alone: what it returned for raw

\* The state the reader loop leaves alone in every step but those named.
jhist == <<crashes, startRet, raw, decoded>>

jvars == <<persisted, args, cmdArgs, jpc, cancelled, stopped, jpos, nread,
           nstarts, line, setOk, jwritten, jparsed, jhist>>

vars == <<rvars, jvars>>

\* ------------------------------------------------------------ helpers
EmptyMap == [k \in {} |-> <<>>]
Put(bm, s, v) == [k \in (DOMAIN bm) \cup {s} |-> IF k = s THEN v ELSE bm[k]]
Del(bm, s) == [k \in (DOMAIN bm) \ {s} |-> bm[k]]
\* r.batchMap[source] of a Go map: the nil slice when the key is absent.
Batch(bm, s) == IF s \in DOMAIN bm THEN bm[s] ELSE <<>>
\* The orders in which a Go range may visit the keys of a map.
Orders(S) ==
  {p \in [1..Cardinality(S) -> S] : \A i, j \in DOMAIN p : i # j => p[i] # p[j]}
NoEntry == [id |-> 0]

\* An Entry as it reaches Process: body holds the combine_field string as a
\* sequence of tokens, here the one token id.
NewEntry(id, src, pr, kind, age) ==
  [id |-> id, src |-> src, pr |-> pr, kind |-> kind, age |-> age,
   body |-> IF kind = "str" THEN <<id>> ELSE <<>>]

\* The Entries Process may be called with, given what the upstream feeds.
\* The predicate does not fail on the fields the operator reads, so one
\* failing Entry stands for all.
Inputs(id) ==
  {NewEntry(id, src, pr, kind, age) :
     src \in feed.srcs, pr \in {"match", "nomatch"}, kind \in feed.kinds,
     age \in feed.ages}
  \cup {NewEntry(id, "a", "error", "str", 0)}

\* e.Read(r.combineField, &s) succeeds only on a string value.
ReadOk(e) == e.kind = "str"
\* base.Set(r.combineField, ...) fails when the path crosses a non-mapping.
SetOk(e) == e.kind # "noset"
Set(e, v) == [e EXCEPT !.kind = "str", !.body = v]

\* e.Read(r.sourceIdentifier, &s) with the fallback of Process.
SourceKey(e) == IF e.src = "" THEN DefaultSourceIdentifier ELSE e.src

matchIndicatesFirst == cfg.matchFirstLine
matchIndicatesLast == ~cfg.matchFirstLine

\* The strings.Builder loop of flushSource.
RECURSIVE Recombine(_, _)
Recombine(entries, i) ==
  IF i > Len(entries) THEN <<>>
  ELSE IF ~ReadOk(entries[i]) THEN Recombine(entries, i + 1)
  ELSE entries[i].body
         \o (IF i # Len(entries) THEN <<CombineWith>> ELSE <<>>)
         \o Recombine(entries, i + 1)

\* A handler works on st = [bm, out, reset, err]: the batch map, the Entries
\* Written so far, whether the ticker was Reset, and the error returned by
\* the last call.
St0 == [bm |-> batchMap, out |-> <<>>, reset |-> FALSE, err |-> FALSE]

\* A flushSource that always keeps the newest Entry as the base.
FlushSourceNewest(st, source) ==
  IF Len(Batch(st.bm, source)) = 0 THEN [st EXCEPT !.err = FALSE]
  ELSE LET entries == st.bm[source]
           base == entries[Len(entries)]
           recombined == Recombine(entries, 1)
       IN IF ~SetOk(base) THEN [st EXCEPT !.err = TRUE]
          ELSE [st EXCEPT !.out = Append(@, Set(base, recombined)),
                          !.bm = Del(@, source),
                          !.err = FALSE]

\* A flushSource that always keeps the oldest Entry as the base.
FlushSourceOldest(st, source) ==
  IF Len(Batch(st.bm, source)) = 0 THEN [st EXCEPT !.err = FALSE]
  ELSE LET entries == st.bm[source]
           base == entries[1]
           recombined == Recombine(entries, 1)
       IN IF ~SetOk(base) THEN [st EXCEPT !.err = TRUE]
          ELSE [st EXCEPT !.out = Append(@, Set(base, recombined)),
                          !.bm = Del(@, source),
                          !.err = FALSE]

\* A flushSource that Writes the combined Entry and keeps the batch keyed.
FlushSourceKeepsKey(st, source) ==
  IF Len(Batch(st.bm, source)) = 0 THEN [st EXCEPT !.err = FALSE]
  ELSE LET entries == st.bm[source]
           base == IF cfg.overwriteWithOldest THEN entries[1]
                   ELSE entries[Len(entries)]
           recombined == Recombine(entries, 1)
       IN IF ~SetOk(base) THEN [st EXCEPT !.err = TRUE]
          ELSE [st EXCEPT !.out = Append(@, Set(base, recombined)),
                          !.err = FALSE]

FlushSource(st, source) ==
  IF Len(Batch(st.bm, source)) = 0 THEN [st EXCEPT !.err = FALSE]
  ELSE LET entries == st.bm[source]
           base == IF cfg.overwriteWithOldest THEN entries[1]
                   ELSE entries[Len(entries)]
           recombined == Recombine(entries, 1)
       IN IF ~SetOk(base) THEN [st EXCEPT !.err = TRUE]
          ELSE [st EXCEPT !.out = Append(@, Set(base, recombined)),
                          !.bm = Del(@, source),
                          !.err = FALSE]

\* A flushUncombined whose inner loop misses the first Entry of a batch.
RECURSIVE WriteAllSkipsFirst(_, _, _)
WriteAllSkipsFirst(bm, order, out) ==
  IF order = <<>> THEN out
  ELSE WriteAllSkipsFirst(bm, Tail(order), out \o Tail(bm[Head(order)]))

RECURSIVE WriteAll(_, _, _)
WriteAll(bm, order, out) ==
  IF order = <<>> THEN out
  ELSE WriteAll(bm, Tail(order), out \o bm[Head(order)])

\* A flushUncombined that Writes every Entry and keeps the batches.
FlushUncombinedKeepsBatches(st, order) ==
  [st EXCEPT !.out = WriteAll(st.bm, order, @), !.reset = TRUE]

\* flushUncombined, visiting the keys in the given order.
FlushUncombinedIn(st, order) ==
  [st EXCEPT !.out = WriteAll(st.bm, order, @), !.bm = EmptyMap,
             !.reset = TRUE]

FlushUncombined(st) == {FlushUncombinedIn(st, o) : o \in Orders(DOMAIN st.bm)}

\* An addToBatch that puts the new Entry in front of the batch.
AddToBatchInFront(st, e, source) ==
  IF source \notin DOMAIN st.bm
  THEN LET st1 == [st EXCEPT !.bm = Put(@, source, <<e>>)]
       IN IF Cardinality(DOMAIN st1.bm) >= cfg.maxSources
          THEN FlushUncombined(st1)
          ELSE {st1}
  ELSE LET st1 == [st EXCEPT !.bm[source] = <<e>> \o @]
       IN IF Len(st1.bm[source]) >= cfg.maxBatchSize
          THEN {[FlushSource(st1, source) EXCEPT !.err = FALSE]}
          ELSE {st1}

\* An addToBatch without the max_sources test.
AddToBatchUnbounded(st, e, source) ==
  IF source \notin DOMAIN st.bm
  THEN {[st EXCEPT !.bm = Put(@, source, <<e>>)]}
  ELSE LET st1 == [st EXCEPT !.bm[source] = Append(@, e)]
       IN IF Len(st1.bm[source]) >= cfg.maxBatchSize
          THEN {[FlushSource(st1, source) EXCEPT !.err = FALSE]}
          ELSE {st1}

AddToBatch(st, e, source) ==
  IF source \notin DOMAIN st.bm
  THEN LET st1 == [st EXCEPT !.bm = Put(@, source, <<e>>)]
       IN IF Cardinality(DOMAIN st1.bm) >= cfg.maxSources
          THEN FlushUncombined(st1)
          ELSE {st1}
  ELSE LET st1 == [st EXCEPT !.bm[source] = Append(@, e)]
       IN IF Len(st1.bm[source]) >= cfg.maxBatchSize
          THEN {[FlushSource(st1, source) EXCEPT !.err = FALSE]}
          ELSE {st1}

\* helper.TransformerOperator.HandleEntryError: with on_error=send the Entry
\* is Written on, and the error is returned all the same, as
\* TestParserCSVInvalidJSONInput observes of a Process that fails (the Entry
\* reaches the output and Process returns the error).
HandleEntryError(st, e) ==
  IF cfg.onError = "send" THEN [st EXCEPT !.out = Append(@, e), !.err = TRUE]
  ELSE [st EXCEPT !.err = TRUE]

\* A Process that buffers every Entry, the failing ones too.
ProcessBuffersFailed(e) ==
  {[a EXCEPT !.err = TRUE] : a \in AddToBatch(St0, e, SourceKey(e))}

\* The results Process(ctx, e) may produce from the current state.
ProcessOutcomes(e) ==
  IF e.pr = "error" THEN {HandleEntryError(St0, e)}
  ELSE LET s == SourceKey(e)
           matches == e.pr = "match"
       IN IF matches /\ matchIndicatesFirst
          THEN LET f == FlushSource(St0, s)
               IN IF f.err THEN {f}
                  ELSE {[a EXCEPT !.err = FALSE] : a \in AddToBatch(f, e, s)}
          ELSE IF matches /\ matchIndicatesLast
          THEN {FlushSource(a, s) : a \in AddToBatch(St0, e, s)}
          ELSE {[a EXCEPT !.err = FALSE] : a \in AddToBatch(St0, e, s)}

\* A tick handler that flushes every source, stale or not.
RECURSIVE TickFlushAll(_, _)
TickFlushAll(st, order) ==
  IF order = <<>> THEN [st EXCEPT !.reset = TRUE, !.err = FALSE]
  ELSE TickFlushAll(FlushSource(st, Head(order)), Tail(order))

\* The body of the ticker case of flushLoop, visiting the keys in `order`.
RECURSIVE TickFlush(_, _)
TickFlush(st, order) ==
  IF order = <<>> THEN [st EXCEPT !.reset = TRUE, !.err = FALSE]
  ELSE LET source == Head(order)
           entries == st.bm[source]
           timeSinceLastEntry == entries[Len(entries)].age
       IN IF timeSinceLastEntry < ForceFlushTimeout
          THEN TickFlush(st, Tail(order))
          ELSE TickFlush(FlushSource(st, source), Tail(order))

\* An Entry without its Timestamp.
Bare(e) == [id |-> e.id, src |-> e.src, pr |-> e.pr, kind |-> e.kind,
            body |-> e.body]
BareSeq(es) == [i \in DOMAIN es |-> Bare(es[i])]

\* The maximal run of a source being assembled, by definition: with
\* is_first_entry a match opens a new run (entries before the first match
\* belong to no run); with is_last_entry a match closes the run it ends.
RunAfter(e) ==
  IF e.pr = "error" THEN run
  ELSE LET s == SourceKey(e)
       IN IF cfg.matchFirstLine
          THEN IF e.pr = "match" THEN [run EXCEPT ![s] = <<Bare(e)>>]
               ELSE IF run[s] = <<>> THEN run
               ELSE [run EXCEPT ![s] = Append(@, Bare(e))]
          ELSE IF e.pr = "match" THEN [run EXCEPT ![s] = <<>>]
               ELSE [run EXCEPT ![s] = Append(@, Bare(e))]

Keys == {SourceKey([src |-> v]) : v \in SrcVals}

\* ------------------------------------------------------------ actions
Op(name, e, ret) == [op |-> name, e |-> e, ret |-> ret]

InitR ==
  /\ feed \in Feeds
  /\ cfg \in Configs
  /\ batchMap = EmptyMap
  /\ tickC = FALSE
  /\ tickerOn = TRUE
  /\ chClose = FALSE
  /\ loopPc = "none"
  /\ panicked = FALSE
  /\ nextId = 1
  /\ written = <<>>
  /\ last = Op("Build", NoEntry, "nil")
  /\ run = [k \in Keys |-> <<>>]
  /\ locked = FALSE
  /\ procPc = [c \in Callers |-> "idle"]
  /\ stopPc = "idle"
  /\ elapsed = TRUE

Start ==
  /\ UNCHANGED <<jvars, mvars>>
  /\ loopPc = "none"
  /\ ~panicked
  /\ loopPc' = "select"
  /\ UNCHANGED <<feed, cfg, batchMap, tickC, tickerOn, chClose, panicked, nextId,
                 written, last, run>>

Process ==
  /\ UNCHANGED <<jvars, mvars>>
  /\ loopPc # "none"
  /\ ~panicked
  /\ nextId <= MaxEntries
  /\ \E e \in Inputs(nextId) :
       \E r \in ProcessOutcomes(e) :
         /\ batchMap' = r.bm
         /\ written' = r.out
         /\ tickerOn' = (tickerOn \/ r.reset)
         /\ last' = Op("Process", e, IF r.err THEN "err" ELSE "nil")
         /\ run' = RunAfter(e)
  /\ nextId' = nextId + 1
  /\ UNCHANGED <<feed, cfg, tickC, chClose, loopPc, panicked>>

\* One force_flush_period passes: every buffered Timestamp is one period
\* older, and a running ticker sends a tick (dropped when the channel is full).
Older(e) == [e EXCEPT !.age = IF @ < ForceFlushTimeout THEN @ + 1 ELSE @]
Elapse ==
  /\ UNCHANGED <<jvars, mvars>>
  /\ ~panicked
  /\ batchMap' = [k \in DOMAIN batchMap |->
                    [i \in DOMAIN batchMap[k] |-> Older(batchMap[k][i])]]
  /\ tickC' = (tickC \/ tickerOn)
  /\ UNCHANGED <<feed, cfg, tickerOn, chClose, loopPc, panicked, nextId, written,
                 last, run>>

\* flushLoop: select receives from r.ticker.C, then waits for the mutex.
LoopRecvTick ==
  /\ UNCHANGED <<jvars, mvars>>
  /\ loopPc = "select"
  /\ ~panicked
  /\ tickC
  /\ tickC' = FALSE
  /\ loopPc' = "lock"
  /\ UNCHANGED <<feed, cfg, batchMap, tickerOn, chClose, panicked, nextId, written,
                 last, run>>

\* flushLoop: the tick handler, from r.Lock() to r.Unlock().
LoopHandleTick ==
  /\ UNCHANGED <<jvars, mvars>>
  /\ loopPc = "lock"
  /\ ~panicked
  /\ \E o \in Orders(DOMAIN batchMap) :
       LET r == TickFlush(St0, o)
       IN /\ batchMap' = r.bm
          /\ written' = r.out
  /\ tickerOn' = TRUE
  /\ loopPc' = "select"
  /\ last' = Op("Tick", NoEntry, "nil")
  /\ UNCHANGED <<feed, cfg, tickC, chClose, panicked, nextId, run>>

\* flushLoop: select receives from the closed r.chClose.
LoopClose ==
  /\ UNCHANGED <<jvars, mvars>>
  /\ loopPc = "select"
  /\ ~panicked
  /\ chClose
  /\ tickerOn' = FALSE
  /\ loopPc' = "done"
  /\ UNCHANGED <<feed, cfg, batchMap, tickC, chClose, panicked, nextId, written,
                 last, run>>

\* Stop; closing r.chClose a second time panics.
Stop ==
  /\ UNCHANGED <<jvars, mvars>>
  /\ loopPc # "none"
  /\ ~panicked
  /\ \E r \in FlushUncombined(St0) :
       /\ batchMap' = r.bm
       /\ written' = r.out
  /\ tickerOn' = TRUE
  /\ chClose' = TRUE
  /\ panicked' = chClose
  /\ last' = Op("Stop", NoEntry, IF chClose THEN "panic" ELSE "nil")
  /\ UNCHANGED <<feed, cfg, tickC, loopPc, nextId, run>>

\* ------------------------------------------------------- journald
NoCursor == 0
NoLine == [pos |-> 0, shape |-> "none", prio |-> "absent"]

\* The args Build leaves in the closure (journald.go:70-102), as tokens.
Arg(flag, val) == [flag |-> flag, val |-> val]
BaseArgs == <<Arg("--utc", 0), Arg("--output=json", 0), Arg("--follow", 0),
              Arg("--priority", 0)>>

\* A line of the child's stdout: what decoding it meets first.
LineShapes ==
  {"good", "badjson", "nots", "tsnotstring", "tsnotnumber", "nocursor",
   "cursornotstring", "nomessage"}
\* The PRIORITY member of a line: absent, a string, or not a string.
Priorities == {"absent", "3", "8", "x", "notstring"}

\* addSeverity (journald.go:283-296): the type assertion sev.(string)
\* panics on a value that is not a string.
addSeverity(prio) ==
  IF prio = "notstring" THEN "panic"
  ELSE IF prio \notin {"0", "1", "2", "3", "4", "5", "6", "7", "8"} THEN "err"
  ELSE IF prio = "8" THEN "err"
  ELSE "ok"

\* A parseJournalEntry that returns an Entry for a line it cannot decode.
parseIgnoringDecodeErrors(l) ==
  IF l.prio = "absent" THEN "ok" ELSE addSeverity(l.prio)

\* parseJournalEntry: "ok" (an Entry and the cursor), "err" or "panic".
parseJournalEntry(l) ==
  IF l.shape # "good" THEN "err"
  ELSE IF l.prio = "absent" THEN "ok"
  ELSE addSeverity(l.prio)

\* A parseJournalEntry that returns the cursor of the line before.
CursorOfPrevious(l) == l.pos - 1

\* The cursor parseJournalEntry returns for a line: its __CURSOR, which is
\* the line's position in the journal.
CursorOf(l) == l.pos

\* A newCmd that never passes the cursor on.
newCmdWithoutCursor(cursor) == args

\* newCmd (journald.go:106-110): appends to the captured args.
newCmd(cursor) ==
  IF cursor # NoCursor THEN Append(args, Arg("--after-cursor", cursor))
  ELSE args

JUnchangedR == UNCHANGED rvars

\* How far Start gets: persister.Get fails, StdoutPipe fails, cmd.Start
\* fails, or the reader goroutine is spawned and Start returns nil.
StartOutcomes == {"get", "pipe", "start", "ok"}

\* A Start that spawns the reader goroutine whatever failed before.
ReaderSpawnedAlways(o) == TRUE

\* Start reaches `go func()` only past every early return.
ReaderSpawned(o) == o = "ok"

JStart ==
  /\ jpc \in {"built", "done", "failed"}
  /\ cancelled => stopped
  /\ nstarts < MaxStarts
  /\ nstarts' = nstarts + 1
  /\ \E o \in StartOutcomes :
       /\ args' = IF o = "get" THEN args ELSE newCmd(persisted)
       /\ cmdArgs' = IF o = "ok" THEN args' ELSE cmdArgs
       /\ jpc' = IF ReaderSpawned(o) THEN "read" ELSE "failed"
       /\ jpos' = IF o = "ok" THEN persisted ELSE jpos
       /\ startRet' = IF o = "ok" THEN "nil" ELSE "err"
  /\ cancelled' = FALSE
  /\ stopped' = FALSE
  /\ UNCHANGED <<persisted, nread, line, setOk, jwritten, jparsed, crashes,
                 raw, decoded>>
  /\ JUnchangedR

\* stdoutBuf.ReadBytes returns a line, and parseJournalEntry is run on it.
\* In a run with crashes the journal holds well-formed lines only, so that a
\* line read again after a restart is the line read before.
JReadLine ==
  /\ jpc \in {"read", "wrote"}
  /\ nread < MaxLines
  /\ \E sh \in LineShapes, pr \in Priorities :
       /\ sh # "good" => pr = "absent"
       /\ crashes => (sh = "good" /\ pr = "absent")
       /\ line' = [pos |-> jpos + 1, shape |-> sh, prio |-> pr]
  /\ jparsed' = IF parseJournalEntry(line') = "ok"
                THEN jparsed \cup {jpos + 1} ELSE jparsed
  /\ jpos' = jpos + 1
  /\ nread' = nread + 1
  /\ jpc' = "parsed"
  /\ UNCHANGED <<persisted, args, cmdArgs, cancelled, stopped, nstarts, setOk,
                 jwritten, jhist>>
  /\ JUnchangedR

\* stdoutBuf.ReadBytes returns an error (EOF once the child is gone).
JReadEnd ==
  /\ jpc \in {"read", "wrote"}
  /\ jpc' = "done"
  /\ UNCHANGED <<persisted, args, cmdArgs, cancelled, stopped, jpos, nread,
                 nstarts, line, setOk, jwritten, jparsed, jhist>>
  /\ JUnchangedR

\* parseJournalEntry failed: warn and continue with the next line.
JSkip ==
  /\ jpc = "parsed"
  /\ parseJournalEntry(line) = "err"
  /\ jpc' = "read"
  /\ UNCHANGED <<persisted, args, cmdArgs, cancelled, stopped, jpos, nread,
                 nstarts, line, setOk, jwritten, jparsed, jhist>>
  /\ JUnchangedR

\* parseJournalEntry panicked: the goroutine, and the process, abort.
JPanic ==
  /\ jpc = "parsed"
  /\ parseJournalEntry(line) = "panic"
  /\ jpc' = "panic"
  /\ UNCHANGED <<persisted, args, cmdArgs, cancelled, stopped, jpos, nread,
                 nstarts, line, setOk, jwritten, jparsed, jhist>>
  /\ JUnchangedR

\* persister.Set(ctx, lastReadCursorKey, cursor): a failure is only logged.
JSet ==
  /\ jpc = "parsed"
  /\ parseJournalEntry(line) = "ok"
  /\ \E ok \in BOOLEAN :
       /\ setOk' = ok
       /\ persisted' = IF ok THEN CursorOf(line) ELSE persisted
  /\ jpc' = "set"
  /\ UNCHANGED <<args, cmdArgs, cancelled, stopped, jpos, nread, nstarts, line,
                 jwritten, jparsed, jhist>>
  /\ JUnchangedR

\* operator.Write(ctx, entry) returns.
JWrite ==
  /\ jpc = "set"
  /\ jwritten' = Append(jwritten, CursorOf(line))
  /\ jpc' = "wrote"
  /\ UNCHANGED <<persisted, args, cmdArgs, cancelled, stopped, jpos, nread,
                 nstarts, line, setOk, jparsed, jhist>>
  /\ JUnchangedR

\* Stop: operator.cancel().
JCancel ==
  /\ jpc \notin {"built", "failed", "panic"}
  /\ ~cancelled
  /\ cancelled' = TRUE
  /\ UNCHANGED <<persisted, args, cmdArgs, jpc, stopped, jpos, nread, nstarts,
                 line, setOk, jwritten, jparsed, jhist>>
  /\ JUnchangedR

\* A Stop that returns without joining the reader goroutine.
JStopReturnsAtOnce ==
  /\ cancelled
  /\ ~stopped
  /\ stopped' = TRUE
  /\ UNCHANGED <<persisted, args, cmdArgs, jpc, cancelled, jpos, nread,
                 nstarts, line, setOk, jwritten, jparsed, jhist>>
  /\ JUnchangedR

\* Stop: operator.wg.Wait() returns once the reader is done.
JStopReturn ==
  /\ cancelled
  /\ ~stopped
  /\ jpc = "done"
  /\ stopped' = TRUE
  /\ UNCHANGED <<persisted, args, cmdArgs, jpc, cancelled, jpos, nread,
                 nstarts, line, setOk, jwritten, jparsed, jhist>>
  /\ JUnchangedR

\* The agent crashes at any point of the reader loop and is built again: a
\* new process, whose Build makes a fresh args slice.  What the persister
\* holds survives; what was Written downstream stays Written.
JCrash ==
  /\ crashes
  /\ jpc \in {"read", "parsed", "set", "wrote"}
  /\ jpc' = "built"
  /\ args' = BaseArgs
  /\ cmdArgs' = <<>>
  /\ cancelled' = FALSE
  /\ stopped' = FALSE
  /\ line' = NoLine
  /\ startRet' = "none"
  /\ UNCHANGED <<persisted, jpos, nread, nstarts, setOk, jwritten, jparsed,
                 crashes, raw, decoded>>
  /\ JUnchangedR

NoRaw == [json |-> FALSE]
NoDecoded == [status |-> "none"]

InitJ ==
  /\ persisted \in {NoCursor, 1}
  /\ args = BaseArgs
  /\ cmdArgs = <<>>
  /\ jpc = "built"
  /\ cancelled = FALSE
  /\ stopped = FALSE
  /\ jpos = 0
  /\ nread = 0
  /\ nstarts = 0
  /\ line = NoLine
  /\ setOk = TRUE
  /\ jwritten = <<>>
  /\ crashes \in BOOLEAN
  /\ jparsed = {}
  /\ startRet = "none"
  /\ raw = NoRaw
  /\ decoded = NoDecoded

\* The journald operator alone, the recombiner left as built.
InitJournald ==
  /\ InitR
  /\ feed = CHOOSE f \in Feeds : TRUE
  /\ cfg = CHOOSE c \in Configs : TRUE
  /\ InitJ

NextJournald ==
  \/ JStart
  \/ JReadLine
  \/ JReadEnd
  \/ JSkip
  \/ JPanic
  \/ JSet
  \/ JWrite
  \/ JCancel
  \/ JStopReturn
  \/ JCrash

SpecJournald == InitJournald /\ [][NextJournald]_vars

\* ------------------------------------------- parseJournalEntry alone
\* The decoded JSON object of a line, member by member.  Unmarshal into
\* map[string]interface{} yields strings, numbers, nil and the like; it
\* never yields a []byte.
MinInt == -(2 ^ (IntBits - 1))
MaxInt == 2 ^ (IntBits - 1) - 1
\* Multiplication and addition of the machine wrap around.
Wrap(n) == ((n - MinInt) % (2 ^ IntBits)) + MinInt

\* __REALTIME_TIMESTAMP: absent, not a string, a string ParseInt rejects, or
\* a string ParseInt accepts (whose value is val, in microseconds).
TsMicros == {-1, 0, 1, 7, MaxInt \div 1000, MaxInt \div 1000 + 1, MaxInt}
TsMembers ==
  {[kind |-> k, val |-> 0] : k \in {"absent", "notstring", "notnumber"}}
    \cup {[kind |-> "int", val |-> v] : v \in TsMicros}
\* __CURSOR: absent, not a string, or a string.
CursorMembers ==
  {[kind |-> k, val |-> ""] : k \in {"absent", "notstring"}}
    \cup {[kind |-> "string", val |-> v] : v \in {"c1", ""}}
\* MESSAGE: absent or any value.
MessageMembers ==
  {[kind |-> "absent", val |-> ""], [kind |-> "present", val |-> "m"]}
\* PRIORITY, as in the reader loop, now with every digit.
PriorityMembers ==
  Priorities \cup {"0", "1", "2", "3", "4", "5", "6", "7", "9"}
\* One more member, _SYSTEMD_UNIT: absent, null, a string or a number.
UnitMembers ==
  { [kind |-> "absent", str |-> "", num |-> 0],
    [kind |-> "null",   str |-> "", num |-> 0],
    [kind |-> "string", str |-> "", num |-> 0],
    [kind |-> "string", str |-> "ssh.service", num |-> 0],
    [kind |-> "number", str |-> "", num |-> 5] }

RawLines ==
  [json : {TRUE}, ts : TsMembers, cursor : CursorMembers,
   msg : MessageMembers, prio : PriorityMembers, unit : UnitMembers]
    \cup {[json |-> FALSE, ts |-> t, cursor |-> c, msg |-> g, prio |-> "absent",
           unit |-> u] :
            t \in {[kind |-> "absent", val |-> 0]},
            c \in {[kind |-> "absent", val |-> ""]},
            g \in {[kind |-> "absent", val |-> ""]},
            u \in {[kind |-> "absent", str |-> "", num |-> 0]}}

\* The first check of parseJournalEntry a line fails, "good" if none, up
\* to operator.NewEntry (journald.go:194-235).
ShapeOf(r) ==
  IF ~r.json THEN "badjson"
  ELSE IF r.ts.kind = "absent" THEN "nots"
  ELSE IF r.ts.kind = "notstring" THEN "tsnotstring"
  ELSE IF r.ts.kind = "notnumber" THEN "tsnotnumber"
  ELSE IF r.cursor.kind = "absent" THEN "nocursor"
  ELSE IF r.cursor.kind = "notstring" THEN "cursornotstring"
  ELSE IF r.msg.kind = "absent" THEN "nomessage"
  ELSE "good"

\* strconv.Atoi on the strings PRIORITY takes here; -1 when it fails.
Digits == <<"0", "1", "2", "3", "4", "5", "6", "7", "8", "9">>
Atoi(str) ==
  IF \E i \in DOMAIN Digits : Digits[i] = str
  THEN (CHOOSE i \in DOMAIN Digits : Digits[i] = str) - 1
  ELSE -1

severityMapping ==
  [i \in 0..7 |-> <<"Fatal", "Error3", "Error2", "Error", "Warn", "Info2",
                    "Info", "Debug">>[i + 1]]
severityText ==
  [i \in 0..7 |-> <<"emerg", "alert", "crit", "err", "warning", "notice",
                    "info", "debug">>[i + 1]]

\* fmt.Sprintf("%v", n) for the numbers a member takes here.
Sprintf(n) == Digits[n + 1]

\* convertField: nil gives "", everything else its default rendering.
convertField(v) ==
  IF v.kind = "null" THEN ""
  ELSE IF v.kind = "number" THEN Sprintf(v.num)
  ELSE v.str

\* The attributes the range loop adds: every member left in body but
\* PRIORITY, when its conversion is not empty.  __CURSOR is still in body.
Attributes(r) ==
  LET left == {<<"__CURSOR", [kind |-> "string", str |-> r.cursor.val,
                              num |-> 0]>>}
                \cup (IF r.unit.kind = "absent" THEN {}
                      ELSE {<<"_SYSTEMD_UNIT", r.unit>>})
      kept == {kv \in left : convertField(kv[2]) # ""}
  IN [k \in {kv[1] : kv \in kept} |->
        convertField((CHOOSE kv \in kept : kv[1] = k)[2])]

\* The Entry parseJournalEntry builds from a line that passes every check.
EntryOf(r) ==
  [body |-> r.msg.val,
   timestamp |-> Wrap(r.ts.val * 1000),
   severity |-> IF r.prio = "absent" THEN "Default"
                ELSE severityMapping[Atoi(r.prio)],
   severityText |-> IF r.prio = "absent" THEN ""
                    ELSE severityText[Atoi(r.prio)],
   attributes |-> Attributes(r)]

\* parseJournalEntry on a whole line: its status as in the reader loop and,
\* when it is "ok", the Entry and the cursor it returns.
Decode(r) ==
  LET status == parseJournalEntry([pos |-> 0, shape |-> ShapeOf(r),
                                   prio |-> r.prio])
  IN IF status = "ok"
     THEN [status |-> "ok", entry |-> EntryOf(r), cursor |-> r.cursor.val]
     ELSE [status |-> status]

InitParse ==
  /\ InitR
  /\ feed = CHOOSE f \in Feeds : TRUE
  /\ cfg = CHOOSE c \in Configs : TRUE
  /\ persisted = NoCursor
  /\ args = BaseArgs
  /\ cmdArgs = <<>>
  /\ jpc = "built"
  /\ cancelled = FALSE
  /\ stopped = FALSE
  /\ jpos = 0
  /\ nread = 0
  /\ nstarts = 0
  /\ line = NoLine
  /\ setOk = TRUE
  /\ jwritten = <<>>
  /\ crashes = FALSE
  /\ jparsed = {}
  /\ startRet = "none"
  /\ raw \in RawLines
  /\ decoded = NoDecoded

\* parseJournalEntry is called on the line.
ParseLine ==
  /\ decoded = NoDecoded
  /\ raw # NoRaw
  /\ decoded' = Decode(raw)
  /\ UNCHANGED <<persisted, args, cmdArgs, jpc, cancelled, stopped, jpos,
                 nread, nstarts, line, setOk, jwritten, jparsed, crashes,
                 startRet, raw>>
  /\ JUnchangedR

SpecParse == InitParse /\ [][ParseLine]_vars

Next ==
  \/ Start
  \/ Process
  \/ Elapse
  \/ LoopRecvTick
  \/ LoopHandleTick
  \/ LoopClose
  \/ Stop

\* The recombiner alone, the journald input left as built.
Init ==
  /\ InitR
  /\ InitJ
  /\ persisted = NoCursor
  /\ crashes = FALSE

Spec == Init /\ [][Next]_vars

\* Fairness: time passes, and the flushLoop goroutine is scheduled.
FairSpec ==
  /\ Spec
  /\ WF_vars(Elapse)
  /\ WF_vars(LoopRecvTick)
  /\ WF_vars(LoopHandleTick)
  /\ WF_vars(LoopClose)

\* --------------------------------- the mutex, statement by statement
\* The handlers of Process, of the tick and of Stop followed from r.Lock()
\* to r.Unlock(); what they do to the batches is left out, what they do to
\* the mutex, the ticker and the shutdown channel is kept.
MUnchanged ==
  UNCHANGED <<jvars, feed, cfg, batchMap, panicked, nextId, written, last, run>>

\* One force_flush_period passes; a running ticker sends a tick.
Period ==
  /\ MUnchanged
  /\ tickC' = (tickC \/ tickerOn)
  /\ elapsed' = TRUE
  /\ UNCHANGED <<tickerOn, chClose, loopPc, locked, procPc, stopPc>>

\* flushLoop: r.Lock() of the tick handler.
LoopLock ==
  /\ MUnchanged
  /\ loopPc = "lock"
  /\ ~locked
  /\ locked' = TRUE
  /\ loopPc' = "range"
  /\ UNCHANGED <<tickC, tickerOn, chClose, procPc, stopPc, elapsed>>

\* flushLoop: the range over r.batchMap.
LoopRange ==
  /\ MUnchanged
  /\ loopPc = "range"
  /\ loopPc' = "reset"
  /\ UNCHANGED <<tickC, tickerOn, chClose, locked, procPc, stopPc, elapsed>>

\* flushLoop: r.ticker.Reset. A tick already in the channel stays there
\* (Go before 1.23) or is discarded (Go 1.23 and later).
LoopReset ==
  /\ MUnchanged
  /\ loopPc = "reset"
  /\ tickerOn' = TRUE
  /\ tickC' \in {tickC, FALSE}
  /\ elapsed' = FALSE
  /\ loopPc' = "unlock"
  /\ UNCHANGED <<chClose, locked, procPc, stopPc>>

\* flushLoop: r.Unlock() of the tick handler.
LoopUnlock ==
  /\ MUnchanged
  /\ loopPc = "unlock"
  /\ locked' = FALSE
  /\ loopPc' = "select"
  /\ UNCHANGED <<tickC, tickerOn, chClose, procPc, stopPc, elapsed>>

\* A goroutine calls Process.
ProcCall(c) ==
  /\ MUnchanged
  /\ loopPc # "none"
  /\ procPc[c] = "idle"
  /\ procPc' = [procPc EXCEPT ![c] = "lock"]
  /\ UNCHANGED <<tickC, tickerOn, chClose, loopPc, locked, stopPc, elapsed>>

\* A Process that enters without taking the mutex.
ProcEnters(c) ==
  /\ MUnchanged
  /\ procPc[c] = "lock"
  /\ locked' = TRUE
  /\ procPc' = [procPc EXCEPT ![c] = "admit"]
  /\ UNCHANGED <<tickC, tickerOn, chClose, loopPc, stopPc, elapsed>>

\* Process: r.Lock().
ProcLock(c) ==
  /\ MUnchanged
  /\ procPc[c] = "lock"
  /\ ~locked
  /\ locked' = TRUE
  /\ procPc' = [procPc EXCEPT ![c] = "admit"]
  /\ UNCHANGED <<tickC, tickerOn, chClose, loopPc, stopPc, elapsed>>

\* Process: the predicate and addToBatch; an overflow flush resets the
\* ticker.
ProcAdmit(c) ==
  /\ MUnchanged
  /\ procPc[c] = "admit"
  /\ procPc' = [procPc EXCEPT ![c] = "flush"]
  /\ \E overflow \in BOOLEAN : tickerOn' = (tickerOn \/ overflow)
  /\ UNCHANGED <<tickC, chClose, loopPc, locked, stopPc, elapsed>>

\* Process: flushSource, then the deferred r.Unlock().
ProcReturn(c) ==
  /\ MUnchanged
  /\ procPc[c] = "flush"
  /\ locked' = FALSE
  /\ procPc' = [procPc EXCEPT ![c] = "idle"]
  /\ UNCHANGED <<tickC, tickerOn, chClose, loopPc, stopPc, elapsed>>

\* The pipeline calls Stop.
StopCall ==
  /\ MUnchanged
  /\ loopPc # "none"
  /\ stopPc = "idle"
  /\ stopPc' = "lock"
  /\ UNCHANGED <<tickC, tickerOn, chClose, loopPc, locked, procPc, elapsed>>

\* Stop: r.Lock().
StopLock ==
  /\ MUnchanged
  /\ stopPc = "lock"
  /\ ~locked
  /\ locked' = TRUE
  /\ stopPc' = "flush"
  /\ UNCHANGED <<tickC, tickerOn, chClose, loopPc, procPc, elapsed>>

\* Stop: flushUncombined, which resets the ticker.
StopFlush ==
  /\ MUnchanged
  /\ stopPc = "flush"
  /\ tickerOn' = TRUE
  /\ stopPc' = "close"
  /\ UNCHANGED <<tickC, chClose, loopPc, locked, procPc, elapsed>>

\* Stop: close(r.chClose).
StopClose ==
  /\ MUnchanged
  /\ stopPc = "close"
  /\ chClose' = TRUE
  /\ stopPc' = "unlock"
  /\ UNCHANGED <<tickC, tickerOn, loopPc, locked, procPc, elapsed>>

\* A Stop that returns with the mutex held.
StopReturnsLocked ==
  /\ MUnchanged
  /\ stopPc = "unlock"
  /\ stopPc' = "done"
  /\ UNCHANGED <<tickC, tickerOn, chClose, loopPc, locked, procPc, elapsed>>

\* Stop: the deferred r.Unlock().
StopReturn ==
  /\ MUnchanged
  /\ stopPc = "unlock"
  /\ locked' = FALSE
  /\ stopPc' = "done"
  /\ UNCHANGED <<tickC, tickerOn, chClose, loopPc, procPc, elapsed>>

InitMutex ==
  /\ Init
  /\ feed = CHOOSE f \in Feeds : TRUE
  /\ cfg = CHOOSE c \in Configs : TRUE

NextMutex ==
  \/ Start
  \/ Period
  \/ LoopRecvTick
  \/ LoopLock
  \/ LoopRange
  \/ LoopReset
  \/ LoopUnlock
  \/ LoopClose
  \/ \E c \in Callers : ProcCall(c)
  \/ \E c \in Callers : ProcLock(c)
  \/ \E c \in Callers : ProcAdmit(c)
  \/ \E c \in Callers : ProcReturn(c)
  \/ StopCall
  \/ StopLock
  \/ StopFlush
  \/ StopClose
  \/ StopReturn

SpecMutex == InitMutex /\ [][NextMutex]_vars

\* Fairness: every goroutine is scheduled; a goroutine waiting for the mutex
\* gets it when it is released again and again (sync.Mutex hands the lock to
\* a starving waiter); a select with several ready cases picks each of them
\* sooner or later (the choice is uniformly random).
FairMutex ==
  /\ SpecMutex
  /\ WF_vars(LoopRange) /\ WF_vars(LoopReset) /\ WF_vars(LoopUnlock)
  /\ SF_vars(LoopLock) /\ SF_vars(LoopClose)
  /\ \A c \in Callers :
       SF_vars(ProcLock(c)) /\ WF_vars(ProcAdmit(c)) /\ WF_vars(ProcReturn(c))
  /\ SF_vars(StopLock) /\ WF_vars(StopFlush) /\ WF_vars(StopClose)
  /\ WF_vars(StopReturn)

\* ----------------------------------------------------- properties
\* The steps of the recombiner, told by what they change.
ProcessStep == nextId' = nextId + 1
StopStep == last'.op = "Stop" /\ (chClose' # chClose \/ panicked' # panicked)
TickStep == loopPc = "lock" /\ loopPc' = "select"

\* All Entries buffered in a batch map, and the Entries of a sequence.
Buffered(bm) == UNION {{bm[k][i] : i \in DOMAIN bm[k]} : k \in DOMAIN bm}
Range(seq) == {seq[i] : i \in DOMAIN seq}
Count(seq, x) == Cardinality({i \in DOMAIN seq : seq[i] = x})
\* The Entry the last Process was called with, and its source key.
Arrived == last'.e
ArrivedKey == SourceKey(last'.e)

\* ---- C1, C2: runs and emitted Entries
\* The combine_field values of a run joined with combine_with, by definition.
RECURSIVE Joined(_)
Joined(es) ==
  IF es = <<>> THEN <<>>
  ELSE IF Len(es) = 1 THEN es[1].body
  ELSE es[1].body \o <<CombineWith>> \o Joined(Tail(es))
AllReadable(es) == \A i \in DOMAIN es : es[i].kind = "str"
\* The Entries an operation Wrote for one source key.
WrittenFor(ws, k) == SelectSeq(ws, LAMBDA w : SourceKey(w) = k)
FirstOldest == cfg.matchFirstLine /\ cfg.overwriteWithOldest
\* The run assembled for the arriving Entry's source is still buffered whole.
RunBuffered == BareSeq(Batch(batchMap, ArrivedKey)) = run[ArrivedKey]

\* The run the arriving matching Entry closes, with is_last_entry.
ClosedRun == Append(run[ArrivedKey], Bare(Arrived))

\* C1 (as claimed): with is_first_entry and overwrite_with=oldest, a Process
\* call emits an Entry for the source exactly when a matching entry arrives
\* after a run that started with a match; the Entry is the first entry of
\* that run carrying the joined values, and the arriving entry stays buffered.
C1_OneEntryPerRun ==
  [][(ProcessStep /\ FirstOldest /\ Arrived.pr # "error")
     => IF Arrived.pr = "match" /\ run[ArrivedKey] # <<>>
        THEN /\ Len(written') = 1
             /\ written'[1].id = run[ArrivedKey][1].id
             /\ written'[1].body = Joined(run[ArrivedKey])
             /\ Batch(batchMap', ArrivedKey) = <<Arrived>>
        ELSE WrittenFor(written', ArrivedKey) = <<>>]_vars

\* C1 (amended): with is_first_entry and overwrite_with=oldest, when a
\* matching entry arrives while the run of its source is still buffered
\* whole and all its combine_field values are strings, that Process call
\* emits exactly one Entry, the first entry of the run carrying the run's
\* values joined in arrival order, and the arriving entry becomes the
\* source's batch.
C1_OneEntryPerBufferedRun ==
  [][(/\ ProcessStep /\ FirstOldest /\ Arrived.pr = "match"
      /\ run[ArrivedKey] # <<>> /\ RunBuffered
      /\ AllReadable(run[ArrivedKey]))
     => (/\ Len(written') = 1
         /\ written'[1].id = run[ArrivedKey][1].id
         /\ written'[1].body = Joined(run[ArrivedKey])
         /\ batchMap' = [batchMap EXCEPT ![ArrivedKey] = <<Arrived>>])]_vars

\* A run of two entries was emitted as one Entry on the arrival of the next
\* match, which is buffered.
C1_Witness ==
  /\ FirstOldest
  /\ last.op = "Process" /\ last.e.pr = "match"
  /\ Len(written) = 1
  /\ Len(written[1].body) = 3
  /\ Batch(batchMap, SourceKey(last.e)) = <<last.e>>

\* C2 (as claimed, on runs still buffered whole whose values are strings):
\* with is_last_entry, the Process call of a matching entry emits exactly one
\* Entry for the source, and its identity is that of the last entry of the
\* run, the matching entry.
C2_LastEntryIsBase ==
  [][(/\ ProcessStep /\ ~cfg.matchFirstLine /\ Arrived.pr = "match"
      /\ RunBuffered /\ AllReadable(ClosedRun))
     => (/\ Len(WrittenFor(written', ArrivedKey)) = 1
         /\ WrittenFor(written', ArrivedKey)[1].id = Arrived.id)]_vars

\* C2 (amended): with is_last_entry, when a matching entry arrives while the
\* rest of its run is still buffered whole and all values of the run are
\* strings, that Process call emits exactly one Entry for the source,
\* carrying the run's values joined in arrival order; its identity is the
\* first entry of the run with overwrite_with=oldest, the last with newest.
C2_OneEntryPerClosedRun ==
  [][(/\ ProcessStep /\ ~cfg.matchFirstLine /\ Arrived.pr = "match"
      /\ RunBuffered /\ AllReadable(ClosedRun))
     => (/\ Len(WrittenFor(written', ArrivedKey)) = 1
         /\ WrittenFor(written', ArrivedKey)[1].id =
              (IF cfg.overwriteWithOldest THEN ClosedRun[1].id ELSE Arrived.id)
         /\ WrittenFor(written', ArrivedKey)[1].body = Joined(ClosedRun)
         /\ ArrivedKey \notin DOMAIN batchMap')]_vars

\* A run of two entries ending with a match was emitted as one Entry, with
\* the identity of its first entry.
C2_Witness ==
  /\ ~cfg.matchFirstLine /\ cfg.overwriteWithOldest
  /\ last.op = "Process" /\ last.e.pr = "match"
  /\ Len(written) = 1
  /\ Len(written[1].body) = 3
  /\ written[1].id # last.e.id

\* ---- C3: buffered entries are eventually emitted
IsBuffered(id) == \E b \in Buffered(batchMap) : b.id = id
\* C3: every Entry buffered by Process is eventually emitted downstream
\* (stated for the streams whose Entries all hold a string combine_field, so
\* that no flush fails).
C3_EventuallyEmitted ==
  (feed.kinds = {"str"})
    => \A id \in 1..MaxEntries : IsBuffered(id) ~> ~IsBuffered(id)

\* C4: every key of the batch map maps to a batch with
\* 0 < len(batch) <= max_batch_size, also when a flush fails.
C4_BatchLenBounded ==
  \A k \in DOMAIN batchMap :
     0 < Len(batchMap[k]) /\ Len(batchMap[k]) <= cfg.maxBatchSize

\* C6: when Process of an entry of an unknown source flushes the buffered
\* entries of the other sources uncombined, every previously buffered Entry
\* is emitted individually, the new entry is not emitted, and it is left as
\* the sole batch of the map.
C6_OverflowAdmitsAfterFlush ==
  [][(/\ ProcessStep
      /\ Arrived.pr # "error"
      /\ ArrivedKey \notin DOMAIN batchMap
      /\ \E i \in DOMAIN written' : SourceKey(written'[i]) # ArrivedKey)
     => (/\ \A b \in Buffered(batchMap) : Count(written', b) = 1
         /\ Arrived \notin Range(written')
         /\ batchMap' = Put(EmptyMap, ArrivedKey, <<Arrived>>))]_vars

\* C7: the uncombined overflow flush happens only when a new source would
\* make the number of buffered sources exceed max_sources: a new source
\* that still fits is admitted and buffered, and nothing is Written.
C7_FlushOnlyWhenExceeding ==
  [][(/\ ProcessStep
      /\ Arrived.pr = "nomatch"
      /\ ArrivedKey \notin DOMAIN batchMap
      /\ Cardinality(DOMAIN batchMap) + 1 <= cfg.maxSources)
     => (/\ written' = <<>>
         /\ batchMap' = Put(batchMap, ArrivedKey, <<Arrived>>))]_vars

\* C8: after Process returns no batch of length >= max_batch_size remains
\* buffered, for any max_batch_size, whether the batch was just created or
\* appended to.
C8_NoFullBatchRemains ==
  \A k \in DOMAIN batchMap : Len(batchMap[k]) < cfg.maxBatchSize

\* C9: Stop emits every buffered Entry of every source individually and
\* unmodified, each exactly once, leaves the batch map empty and has the
\* shutdown channel closed.
C9_StopFlushesUncombined ==
  [][StopStep
     => (/\ batchMap' = EmptyMap
         /\ chClose'
         /\ Len(written') = Cardinality(Buffered(batchMap))
         /\ \A b \in Buffered(batchMap) : Count(written', b) = 1)]_vars

\* Stop ran with two sources buffered, one of them holding two entries.
C9_Witness ==
  /\ last.op = "Stop"
  /\ batchMap = EmptyMap
  /\ Len(written) = 3
  /\ \E i, j \in DOMAIN written : SourceKey(written[i]) # SourceKey(written[j])

\* ---- C5: per-source order of the Writes
\* The arrivals an Entry Written downstream stands for: itself and the
\* entries whose values its combined field carries.
Covered(w) == {w.id} \cup (Range(w.body) \ {CombineWith})
SameSource(x, y) == SourceKey(x) = SourceKey(y)
\* Writes of one operation are in arrival order per source, and so are the
\* values inside a combined field.
OrderedWrites ==
  /\ \A i, j \in DOMAIN written :
       (i < j /\ SameSource(written[i], written[j]))
         => \A c \in Covered(written[i]), d \in Covered(written[j]) : c < d
  /\ \A i \in DOMAIN written : \A p, q \in DOMAIN written[i].body :
       (p < q /\ written[i].body[p] # CombineWith
              /\ written[i].body[q] # CombineWith)
         => written[i].body[p] < written[i].body[q]
\* Nothing Written overtakes an entry of its source that is still buffered.
NoOvertaking(ws) ==
  \A w \in ws : \A b \in Buffered(batchMap) :
     SameSource(w, b) => \A c \in Covered(w) : c < b.id

\* C5 (as claimed): for every source, the order of the Writes and of the
\* values inside each combined field is the order of arrival at Process.
C5_ArrivalOrder == OrderedWrites /\ NoOvertaking(Range(written))

\* C5 (amended): the same, for the entries whose predicate evaluated
\* without error; an entry whose predicate fails is forwarded at once with
\* on_error=send, ahead of the buffered entries of its source.
C5_ArrivalOrderOfBatched ==
  OrderedWrites /\ NoOvertaking({w \in Range(written) : w.pr # "error"})

\* A combined Entry carrying two values was Written while a later entry of
\* its source is buffered.
C5_Witness ==
  \E w \in Range(written) :
     /\ Cardinality(Covered(w)) >= 2
     /\ \E b \in Buffered(batchMap) : SameSource(w, b)

InFlight(p) == jpc \in {"parsed", "set"} /\ line.pos = p
\* C11: no successfully parsed line is lost, whatever the point of the reader
\* loop the agent crashes at: a parsed line has been Written, or is still in
\* the reader's hands, or lies after the persisted cursor, so that the next
\* Start reads it again.
C11_NoParsedLineLost ==
  \A p \in jparsed : p \in Range(jwritten) \/ InFlight(p) \/ p > persisted

\* ---- C12, C13: lines that do not parse
\* The PRIORITY strings addSeverity accepts.
ValidPriorities == {"0", "1", "2", "3", "4", "5", "6", "7"}
\* A step of the reader goroutine out of the state it parsed a line in.
LeavesParsed == jpc = "parsed" /\ jpc' # jpc

\* C12: a line that fails to decode is skipped: no Entry is Written for it,
\* the persisted cursor is unchanged and the reader goes on to the next line;
\* and the cursor is only ever set to the __CURSOR of a line that was parsed
\* into an Entry.
C12_UndecodableLineSkipped ==
  [][/\ (LeavesParsed /\ line.shape # "good")
          => (jpc' = "read" /\ persisted' = persisted /\ jwritten' = jwritten)
     /\ (persisted' # persisted)
          => (/\ line.shape = "good"
              /\ line.prio \in ValidPriorities \cup {"absent"}
              /\ persisted' = line.pos)]_vars

\* A line that is not JSON was skipped after a line that was Written: the
\* reader is back at ReadBytes and the cursor is still that of the first line.
C12_Witness ==
  /\ jpc = "read"
  /\ line.shape = "badjson"
  /\ line.pos = 2
  /\ jwritten = <<1>>
  /\ persisted = 1

\* C13: a line whose PRIORITY is not a decimal integer in 0..7, whatever its
\* type, is skipped: nothing is Written or persisted for it and the reader
\* goes on to the next line.
C13_BadPriorityIsSkipped ==
  [][(/\ LeavesParsed /\ line.shape = "good"
      /\ line.prio \notin ValidPriorities \cup {"absent"})
     => (jpc' = "read" /\ persisted' = persisted /\ jwritten' = jwritten)]_vars

Launch == nstarts' # nstarts /\ jpc' = "read"
HasAfterCursor(as) == \E i \in DOMAIN as : as[i].flag = "--after-cursor"

\* C16: when Start finds a cursor persisted, the child is launched with
\* --after-cursor <that cursor> appended to its arguments; when no cursor is
\* persisted, no --after-cursor argument is passed.
C16_AfterCursorPassed ==
  [][Launch
     => IF persisted # NoCursor
        THEN /\ Len(cmdArgs') > Len(BaseArgs)
             /\ cmdArgs'[Len(cmdArgs')] = [flag |-> "--after-cursor",
                                           val |-> persisted]
        ELSE ~HasAfterCursor(cmdArgs')]_vars

\* The operator was started a second time, with the cursor of the second
\* line persisted, and the child was launched to resume after that line.
C16_Witness ==
  /\ nstarts = 2
  /\ jpc = "read"
  /\ persisted = 2
  /\ jpos = 2
  /\ cmdArgs[Len(cmdArgs)] = [flag |-> "--after-cursor", val |-> 2]

\* ---- C18: errors of Start
\* C18: a Start that returns an error has spawned no reader: until the next
\* Start nothing is persisted and nothing is Written; and the absence of a
\* persisted cursor does not keep Start from succeeding.
C18_FailedStartSpawnsNoReader ==
  [][/\ (nstarts' # nstarts /\ startRet' = "err") => jpc' = "failed"
     /\ (startRet = "err" /\ nstarts' = nstarts)
          => (jpc' = "failed" /\ persisted' = persisted
              /\ jwritten' = jwritten)
     /\ (nstarts' # nstarts /\ persisted = NoCursor /\ jpc' = "read")
          => startRet' = "nil"]_vars

\* A second Start failed after a first one whose reader Wrote a line.
C18_Witness ==
  /\ startRet = "err"
  /\ jpc = "failed"
  /\ nstarts = 2
  /\ Len(jwritten) >= 1

\* ---- C15: predicate evaluation fails
\* The last Process call was handed an Entry whose predicate fails.
FailedStep == ProcessStep /\ Arrived.pr = "error"

\* C15 (as claimed): when predicate evaluation fails the batch map is left
\* unchanged; with on_error=send the Entry is forwarded unchanged and Process
\* returns nil, with on_error=drop nothing is forwarded and Process returns
\* the error.
C15_SendReturnsNil ==
  [][FailedStep
     => (/\ batchMap' = batchMap
         /\ IF cfg.onError = "send"
            THEN written' = <<Arrived>> /\ last'.ret = "nil"
            ELSE written' = <<>> /\ last'.ret = "err")]_vars

\* C15 (amended): when predicate evaluation fails the batch map is left
\* unchanged and Process returns the error; with on_error=send the Entry is
\* forwarded unchanged before that, with on_error=drop nothing is forwarded.
C15_ErrorReturnedEitherWay ==
  [][FailedStep
     => (/\ batchMap' = batchMap
         /\ last'.ret = "err"
         /\ IF cfg.onError = "send"
            THEN written' = <<Arrived>>
            ELSE written' = <<>>)]_vars

\* An Entry whose predicate fails was forwarded while another Entry stays
\* buffered.
C15_Witness ==
  /\ last.op = "Process"
  /\ last.e.pr = "error"
  /\ last.ret = "err"
  /\ cfg.onError = "send"
  /\ written = <<last.e>>
  /\ batchMap # EmptyMap

\* ---- C19, C20: flushSource, as the tick handler runs it
\* The entries of a batch whose combine_field reads as a string.
Readable(es) == SelectSeq(es, LAMBDA x : x.kind = "str")
\* The source keys the step flushed.
Flushed == DOMAIN batchMap \ DOMAIN batchMap'

\* C19: the combined field a flush assigns holds the values of exactly the
\* entries of the batch whose read succeeds, in arrival order, with
\* combine_with between consecutive values and nowhere else, for every
\* pattern of read failures.
C19_JoinOfReadable ==
  [][TickStep
     => \A k \in Flushed :
          /\ Len(WrittenFor(written', k)) = 1
          /\ WrittenFor(written', k)[1].body = Joined(Readable(batchMap[k]))]_vars

\* The base Entry flushSource picks in a batch.
BaseOf(es) == IF cfg.overwriteWithOldest THEN es[1] ELSE es[Len(es)]

\* C20: a flush either Writes exactly one Entry, the base (the oldest or the
\* newest entry of the batch, by overwrite_with), and removes the key, or,
\* when the combined field cannot be set, Writes nothing and leaves the
\* batch keyed unchanged; a flush of an absent batch does nothing.
C20_FlushAtomic ==
  [][/\ TickStep
          => \A k \in DOMAIN batchMap :
               \/ /\ k \notin DOMAIN batchMap'
                  /\ Len(WrittenFor(written', k)) = 1
                  /\ WrittenFor(written', k)[1].id = BaseOf(batchMap[k]).id
                  /\ WrittenFor(written', k)[1].age = BaseOf(batchMap[k]).age
               \/ /\ k \in DOMAIN batchMap'
                  /\ batchMap'[k] = batchMap[k]
                  /\ WrittenFor(written', k) = <<>>
     /\ (/\ ProcessStep /\ cfg.matchFirstLine /\ Arrived.pr = "match"
         /\ ArrivedKey \notin DOMAIN batchMap
         /\ Cardinality(DOMAIN batchMap) + 1 < cfg.maxSources)
          => (/\ written' = <<>>
              /\ batchMap' = Put(batchMap, ArrivedKey, <<Arrived>>))]_vars

\* A tick flushed the stale batch of one source as one Entry and left the
\* fresh batch of another source buffered.
C20_Witness ==
  /\ last.op = "Tick"
  /\ Len(written) = 1
  /\ Len(written[1].body) = 3
  /\ Cardinality(DOMAIN batchMap) = 1

\* ---- C17: decode of a well-formed line
\* The severity table of the claim, by PRIORITY.
ClaimedSeverity(p) ==
  CASE p = "0" -> <<"Fatal", "emerg">>
    [] p = "1" -> <<"Error3", "alert">>
    [] p = "2" -> <<"Error2", "crit">>
    [] p = "3" -> <<"Error", "err">>
    [] p = "4" -> <<"Warn", "warning">>
    [] p = "5" -> <<"Info2", "notice">>
    [] p = "6" -> <<"Info", "info">>
    [] p = "7" -> <<"Debug", "debug">>
\* The string a remaining member is claimed to give as an attribute.
ClaimedUnit ==
  IF raw.unit.kind = "string" THEN raw.unit.str
  ELSE IF raw.unit.kind = "number" THEN "5"
  ELSE ""
\* Body, severity and attributes of the Entry are as the claim has them.
DecodedFields ==
  LET e == decoded.entry
  IN /\ e.body = raw.msg.val
     /\ raw.prio # "absent"
          => <<e.severity, e.severityText>> = ClaimedSeverity(raw.prio)
     /\ DOMAIN e.attributes =
          (IF raw.cursor.val # "" THEN {"__CURSOR"} ELSE {})
            \cup (IF ClaimedUnit # "" THEN {"_SYSTEMD_UNIT"} ELSE {})
     /\ "__CURSOR" \in DOMAIN e.attributes
          => e.attributes["__CURSOR"] = raw.cursor.val
     /\ "_SYSTEMD_UNIT" \in DOMAIN e.attributes
          => e.attributes["_SYSTEMD_UNIT"] = ClaimedUnit

\* C17: for every line parseJournalEntry returns an Entry for, the body is
\* the MESSAGE, the Timestamp is __REALTIME_TIMESTAMP times 1000 in epoch
\* nanoseconds, the severity follows the PRIORITY table and the attributes
\* are exactly the remaining members whose conversion is not empty.
C17_DecodeOfWellFormed ==
  decoded.status = "ok"
    => (DecodedFields /\ decoded.entry.timestamp = raw.ts.val * 1000)

\* ---- C21: what a tick flushes
\* The batch of source k is stale: its last Entry is at least one
\* force_flush_period old.
Stale(k) == batchMap[k][Len(batchMap[k])].age >= ForceFlushTimeout
\* The step flushed source k as one combined Entry.
FlushedCombined(k) ==
  k \notin DOMAIN batchMap' /\ Len(WrittenFor(written', k)) = 1
\* The step left source k alone.
Untouched(k) ==
  /\ k \in DOMAIN batchMap'
  /\ batchMap'[k] = batchMap[k]
  /\ WrittenFor(written', k) = <<>>

\* C21 (as claimed): a tick flushes, combined, every stale source and no
\* other: a source whose last entry is younger than force_flush_period is
\* left alone, and no stale source remains buffered after the handler.
C21_TickFlushesStale ==
  [][TickStep
     => \A k \in DOMAIN batchMap :
          IF Stale(k) THEN FlushedCombined(k) ELSE Untouched(k)]_vars

\* C21 (amended): a tick flushes, combined, every stale source whose combined
\* field can be set on its base, and no other source: a younger source is
\* left alone, and so is a stale source whose flush fails, which remains
\* buffered after the handler.
C21_TickFlushesStaleUnlessSetFails ==
  [][TickStep
     => \A k \in DOMAIN batchMap :
          IF Stale(k) /\ BaseOf(batchMap[k]).kind # "noset"
          THEN FlushedCombined(k) ELSE Untouched(k)]_vars

\* A tick flushed a stale source and left a younger one buffered.
C21_Witness ==
  /\ last.op = "Tick"
  /\ written # <<>>
  /\ \E k \in DOMAIN batchMap :
       batchMap[k][Len(batchMap[k])].age < ForceFlushTimeout

\* ---- C25: an Entry is released at most once
Ids(es) == {x.id : x \in es}
\* The Entries a step may release: those buffered before it and, in a
\* Process call, the arriving one.
Held == Ids(Buffered(batchMap))
          \cup (IF ProcessStep THEN {Arrived.id} ELSE {})

\* C25: no Entry Written downstream is still referenced by the batch map, no
\* Entry is Written twice by one operation, every Entry Written was held by
\* the operator until then, and an Entry that left the batch map never comes
\* back, so that no Entry is ever Written more than once.
C25_ReleasedAtMostOnce ==
  [][(ProcessStep \/ TickStep \/ StopStep)
     => (/\ \A i, j \in DOMAIN written' :
              i # j => written'[i].id # written'[j].id
         /\ Ids(Range(written')) \cap Ids(Buffered(batchMap')) = {}
         /\ Ids(Range(written')) \subseteq Held
         /\ Ids(Buffered(batchMap')) \subseteq Held)]_vars

\* An overflow flush released the buffered Entries and the arriving one.
C25_Witness ==
  /\ last.op = "Process"
  /\ Len(written) >= 2
  /\ last.e \in Range(written)
  /\ batchMap = EmptyMap

\* ---- C26: no Entry is lost
\* C26: after Process(e) returns, for an e whose predicate evaluated and
\* whose combine_field is a string, e is still buffered or has been Written,
\* itself or as a value of a combined Entry, also when Process returns an
\* error.
C26_NoEntryLost ==
  [][(ProcessStep /\ Arrived.pr # "error" /\ Arrived.kind = "str")
     => \/ Arrived.id \in Ids(Buffered(batchMap'))
        \/ \E i \in DOMAIN written' : Arrived.id \in Covered(written'[i])]_vars

\* ---- C27: max_sources bounds the batch map
\* The number of Entries buffered.
RECURSIVE SumLen(_, _)
SumLen(bm, ks) ==
  IF ks = {} THEN 0
  ELSE LET k == CHOOSE x \in ks : TRUE
       IN Len(bm[k]) + SumLen(bm, ks \ {k})
NumBuffered == SumLen(batchMap, DOMAIN batchMap)

HoldingCallers == {c \in Callers : procPc[c] \in {"admit", "flush"}}
LoopHolds == loopPc \in {"range", "reset", "unlock"}
StopHolds == stopPc \in {"flush", "close", "unlock"}
Holders ==
  Cardinality(HoldingCallers) + (IF LoopHolds THEN 1 ELSE 0)
    + (IF StopHolds THEN 1 ELSE 0)

\* C24: at most one of the Process calls, the tick handler and Stop is inside
\* its critical section, where alone the batch map is accessed, and the
\* mutex is locked exactly then: the tick handler never runs between the
\* admission and the flush of a Process call, and Process calls are
\* serialized.
C24_CriticalSectionsExclusive ==
  /\ Holders <= 1
  /\ locked <=> Holders = 1

\* A Process call is between admission and flush while the tick handler and
\* another Process call wait for the mutex.
C24_Witness ==
  /\ \E c, d \in Callers : procPc[c] = "flush" /\ procPc[d] = "lock"
  /\ loopPc = "lock"

\* ---- C22: the distance between two runs of the tick handler
\* C22: the tick handler is never entered before a force_flush_period has
\* passed since it last reset the ticker.
C22_HandlerRunsPeriodApart ==
  [][(loopPc = "lock" /\ loopPc' = "range") => elapsed]_vars

\* ---- C23: shutdown
\* C23: once Stop has closed the shutdown channel, flushLoop eventually
\* returns, and the ticker is stopped when it does; a Process call and the
\* Stop call waiting for the mutex eventually return.
C23_LoopTerminates ==
  /\ chClose ~> (loopPc = "done")
  /\ [][loopPc' = "done" /\ loopPc # "done" => ~tickerOn']_vars
  /\ \A c \in Callers : (procPc[c] = "lock") ~> (procPc[c] = "idle")
  /\ (stopPc = "lock") ~> (stopPc = "done")

\* Stop has returned, flushLoop has returned with the ticker stopped, and no
\* Process call is in flight.
C23_Witness ==
  /\ stopPc = "done"
  /\ loopPc = "done"
  /\ ~tickerOn
  /\ \A c \in Callers : procPc[c] = "idle"

\* ---- C28: the arguments over several Starts
AfterCursors(as) == {i \in DOMAIN as : as[i].flag = "--after-cursor"}

\* C28: over any sequence of Start/Stop cycles every launched child gets
\* --after-cursor at most once, with the cursor persisted at that Start as
\* its value: arguments of an earlier Start do not accumulate.
C28_AfterCursorAtMostOnce ==
  [][Launch
     => /\ Cardinality(AfterCursors(cmdArgs')) <= 1
        /\ \A i \in AfterCursors(cmdArgs') : cmdArgs'[i].val = persisted]_vars

====
